---- MODULE Spec2Model ----
(***************************************************************************)
(* tapr: the concurrent batch orchestrator (cmd/tapr/main.go,              *)
(* runBatchTests) and the batch summary aggregator (internal/stats,        *)
(* BatchSummary).                                                          *)
(*                                                                         *)
(* Spec         one run of runBatch: the config load, then runBatchTests   *)
(*              (the launching loop, one worker goroutine per endpoint,    *)
(*              the goroutine that closes the results channel, the         *)
(*              collector loop, the deadline timer), then the display and  *)
(*              the exit code.  Every select statement is a                *)
(*              nondeterministic choice among its ready cases, as in Go.   *)
(* SpecSummary  arbitrary sequences of BatchSummary.AddResult calls.       *)
(* SpecPing     one call of request.Ping from testEndpoint or runPing.     *)
(* SpecStats    a BatchSummary under AddResult or a Tracker under Record,  *)
(*              with their queries.                                        *)
(* SpecTracker  a Tracker under the Record calls of the watch loop.         *)
(* SpecQueries  a Tracker under Record and its queries.                    *)
(* SpecStdDev   calculateStdDev on a tracker of fast requests.             *)
(* SpecHistory  a History of any capacity under Add and GetRecent.         *)
(* SpecWatch    the watch command: first request, watch loop, ticker,      *)
(*              signal, summary.                                           *)
(* SpecWatchFair  the same under fair scheduling.                          *)
(*                                                                         *)
(* Durations are integers in nanoseconds, as time.Duration is.             *)
(***************************************************************************)
EXTENDS Integers, Sequences, FiniteSets

VARIABLES
    nEndpoints,   \* len(batchConfig.Endpoints)
    concurrency,  \* batchConfig.Concurrency, at first as the file gives it
    failFast,     \* the --fail-fast flag
    maxTimeSet,   \* maxTime > 0
    mainPc,       \* position of runBatchTests itself
    launched,     \* endpoints whose goroutine the loop has started
    pc,           \* position of each worker goroutine
    result,       \* each worker's local variable result
    semaphore,    \* number of elements in the semaphore channel
    wgCount,      \* the WaitGroup counter
    stopped,      \* the plain bool stopped
    stopCloses,   \* number of close(stopChan) executed
    ctxDone,      \* the context's deadline has expired
    resultsChan,  \* the buffered results channel
    resultsClosed,\* close(resultsChan) has run
    closerPc,     \* position of the goroutine closing resultsChan
    panicked,     \* a goroutine panicked: the process is gone
    summary,      \* the BatchSummary
    dispatched,   \* workers that acquired the semaphore (history)
    late,         \* workers that delivered after cancellation (history)
    failedProbes, \* workers whose probe was unsuccessful (history)
    configOk,     \* the config file exists, parses and names every URL
    outputFormat, \* the --output flag
    quiet,        \* the --quiet flag
    silent,       \* the --silent flag
    deadlineWarned, \* "Batch exceeded max-time limit" was printed
    exitCode,     \* the code the process exited with
    tracker,      \* the watch mode's stats.Tracker
    ping,         \* one call of request.Ping and its caller
    recorded,     \* the calls of tracker.Record so far (history)
    history,      \* the watch mode's stats.History
    added,        \* the results handed to history.Add so far (history)
    returned,     \* the last call of a query and the value it returned
    watch         \* the watch command: its flags and where its loop is

\* What displayBatchResults and the end of runBatchTests read and write.
displayVars == <<outputFormat, quiet, silent, deadlineWarned, exitCode>>

\* The state of the other commands, which a batch run leaves alone.
otherVars == <<tracker, ping, recorded, history, added, returned, watch>>

\* The watch mode's containers and what is observed of them.
watchVars == <<recorded, history, added, returned, watch>>

vars == <<nEndpoints, concurrency, failFast, maxTimeSet, mainPc, launched, pc,
          result, semaphore, wgCount, stopped, stopCloses, ctxDone,
          resultsChan, resultsClosed, closerPc, panicked, summary,
          dispatched, late, failedProbes, configOk, displayVars, otherVars>>

batchVars == <<nEndpoints, concurrency, failFast, maxTimeSet, mainPc, launched,
               pc, result, semaphore, wgCount, stopped, stopCloses, ctxDone,
               resultsChan, resultsClosed, closerPc, panicked, dispatched,
               late, failedProbes, configOk, displayVars>>

----
\* Bounds of the model.
MaxEndpoints   == 2
MaxConcurrency == 1
MaxAdds        == 3
MaxRetries     == 3
MaxRecords     == 3
MaxCapacity    == 3
MaxHistoryAdds == 5
MaxCount       == 3
MaxRequests    == 4

\* Program constants.
Millisecond    == 1000000
SlowLimitMs    == 500
DefaultExpectedStatus == 200
DefaultConcurrency == 5
ExitSuccess    == 0
ExitFailure    == 1
ExitError      == 2

\* The number of latencies TestTracker_Percentile records.
TestSamples    == 100

\* The number of Newton steps of calculateStdDev.
NewtonSteps    == 10

\* The capacity of the history runWatch creates.
WatchHistorySize == 10

\* The values of --output: the three formats and one that is none of them.
OutputFormats == {"pretty", "json", "csv", "xml"}

\* No exit yet.
NoExit == -1

Workers == 1..MaxEndpoints

\* Latencies the probes of a batch run report.
BatchLatencies == {100 * Millisecond}

\* Latencies handed to Record directly.
TrackerLatencies == {0, Millisecond, 2 * Millisecond, 3 * Millisecond}

\* The percentiles the watch summary and the tests ask for, in hundredths.
Percentiles == {0, 50, 95, 99, 100}

\* Latencies of a fast endpoint, whose squared deviations fit the integers
\* of the model checker.
MicroLatencies == {0, 3, 40000}

\* Latencies handed to AddResult directly.
Latencies == {1, 2, 3, 100 * Millisecond, 200 * Millisecond,
              300 * Millisecond, 501 * Millisecond}

----
\* The Content-Length of the responses.
ResponseSize == 512

\* request.Result as Ping returns it: an error carries no status code and no
\* size.
ProbeOutcomes(lats) ==
    {[Error |-> FALSE, StatusCode |-> s, Latency |-> l, Size |-> ResponseSize] :
        s \in {200, 500}, l \in lats}
    \cup {[Error |-> TRUE, StatusCode |-> 0, Latency |-> l, Size |-> 0] :
             l \in lats}

\* The zero request.Result, which Ping returns when its loop never runs.
ZeroResult == [Error |-> FALSE, StatusCode |-> 0, Latency |-> 0, Size |-> 0]

\* opts.Retries taken from the global --retries flag.
BatchRetriesGlobal == ping.retries

\* opts.Retries as testEndpoint sets it.
BatchRetries == 0

\* Backoff growing by one second per attempt.
backoffLinear(attempt) == attempt + 1

\* Ping's backoff after the failed attempt number attempt (from 0), in units
\* of time.Second: 1 << attempt.
backoff(attempt) == 2 ^ attempt

\* The message of testEndpoint: fmt.Sprintf's format with its arguments.
NoMessage == <<>>
ErrorString == <<"err">>
ErrorMessage == <<"Error: ">> \o ErrorString
ExpectedMessage(expected, got) == <<"Expected ", expected, ", got ", got>>

\* testEndpoint judging a probe by its error alone.
testEndpointIgnoresStatus(name, expected, r) ==
    [Name           |-> name,
     URL            |-> <<"https://", name>>,
     Method         |-> "GET",
     ExpectedStatus |-> expected,
     Result         |-> r,
     Success        |-> ~r.Error,
     Message        |-> IF r.Error THEN ErrorMessage
                        ELSE IF r.StatusCode # expected
                             THEN ExpectedMessage(expected, r.StatusCode)
                             ELSE NoMessage]

\* testEndpoint: the BatchResult built from the endpoint and the result that
\* Ping returned.
testEndpoint(name, expected, r) ==
    [Name           |-> name,
     URL            |-> <<"https://", name>>,
     Method         |-> "GET",
     ExpectedStatus |-> expected,
     Result         |-> r,
     Success        |-> (~r.Error) /\ r.StatusCode = expected,
     Message        |-> IF r.Error THEN ErrorMessage
                        ELSE IF r.StatusCode # expected
                             THEN ExpectedMessage(expected, r.StatusCode)
                             ELSE NoMessage]

NoResult == [Name |-> 0]

----
\* NewBatchSummary.
NewBatchSummary ==
    [Total |-> 0, Successful |-> 0, Failed |-> 0, Slow |-> 0,
     AvgLatency |-> 0, Results |-> <<>>]

\* Go's integer division truncates toward zero.
GoDiv(a, b) == IF a >= 0 THEN a \div b ELSE -((-a) \div b)

\* AddResult counting only errored results as failed.
AddResultErrorsOnly(bs, r) ==
    LET total == bs.Total + 1 IN
    [Total      |-> total,
     Successful |-> IF r.Success THEN bs.Successful + 1 ELSE bs.Successful,
     Failed     |-> IF r.Result.Error THEN bs.Failed + 1 ELSE bs.Failed,
     Slow       |-> IF (~r.Result.Error)
                       /\ r.Result.Latency > SlowLimitMs * Millisecond
                    THEN bs.Slow + 1 ELSE bs.Slow,
     AvgLatency |-> IF ~r.Result.Error
                    THEN GoDiv(bs.AvgLatency * (total - 1) + r.Result.Latency,
                               total)
                    ELSE bs.AvgLatency,
     Results    |-> Append(bs.Results, r)]

\* AddResult weighting the old average by the new count.
AddResultWrongWeight(bs, r) ==
    LET total == bs.Total + 1 IN
    [Total      |-> total,
     Successful |-> IF r.Success THEN bs.Successful + 1 ELSE bs.Successful,
     Failed     |-> IF r.Success THEN bs.Failed ELSE bs.Failed + 1,
     Slow       |-> IF (~r.Result.Error)
                       /\ r.Result.Latency > SlowLimitMs * Millisecond
                    THEN bs.Slow + 1 ELSE bs.Slow,
     AvgLatency |-> IF ~r.Result.Error
                    THEN GoDiv(bs.AvgLatency * total + r.Result.Latency,
                               total)
                    ELSE bs.AvgLatency,
     Results    |-> Append(bs.Results, r)]

\* AddResult averaging the latency of every result, errored or not.
AddResultAveragesErrors(bs, r) ==
    LET total == bs.Total + 1 IN
    [Total      |-> total,
     Successful |-> IF r.Success THEN bs.Successful + 1 ELSE bs.Successful,
     Failed     |-> IF r.Success THEN bs.Failed ELSE bs.Failed + 1,
     Slow       |-> IF (~r.Result.Error)
                       /\ r.Result.Latency > SlowLimitMs * Millisecond
                    THEN bs.Slow + 1 ELSE bs.Slow,
     AvgLatency |-> GoDiv(bs.AvgLatency * (total - 1) + r.Result.Latency,
                          total),
     Results    |-> Append(bs.Results, r)]

\* BatchSummary.AddResult.
AddResult(bs, r) ==
    LET total == bs.Total + 1 IN
    [Total      |-> total,
     Successful |-> IF r.Success THEN bs.Successful + 1 ELSE bs.Successful,
     Failed     |-> IF r.Success THEN bs.Failed ELSE bs.Failed + 1,
     Slow       |-> IF (~r.Result.Error)
                       /\ r.Result.Latency > SlowLimitMs * Millisecond
                    THEN bs.Slow + 1 ELSE bs.Slow,
     AvgLatency |-> IF ~r.Result.Error
                    THEN GoDiv(bs.AvgLatency * (total - 1) + r.Result.Latency,
                               total)
                    ELSE bs.AvgLatency,
     Results    |-> Append(bs.Results, r)]

----
\* NewTracker.
NewTracker ==
    [Total |-> 0, Successful |-> 0, Failed |-> 0, Latencies |-> <<>>,
     MinLatency |-> 0, MaxLatency |-> 0]

\* Record keeping the latencies of successful requests only.
RecordSuccessfulLatencies(t, latency, success) ==
    [Total      |-> t.Total + 1,
     Successful |-> IF success THEN t.Successful + 1 ELSE t.Successful,
     Failed     |-> IF success THEN t.Failed ELSE t.Failed + 1,
     Latencies  |-> IF success THEN Append(t.Latencies, latency)
                    ELSE t.Latencies,
     MinLatency |-> IF t.MinLatency = 0 \/ latency < t.MinLatency
                    THEN latency ELSE t.MinLatency,
     MaxLatency |-> IF latency > t.MaxLatency THEN latency ELSE t.MaxLatency]

\* Tracker.Record.
Record(t, latency, success) ==
    [Total      |-> t.Total + 1,
     Successful |-> IF success THEN t.Successful + 1 ELSE t.Successful,
     Failed     |-> IF success THEN t.Failed ELSE t.Failed + 1,
     Latencies  |-> Append(t.Latencies, latency),
     MinLatency |-> IF t.MinLatency = 0 \/ latency < t.MinLatency
                    THEN latency ELSE t.MinLatency,
     MaxLatency |-> IF latency > t.MaxLatency THEN latency ELSE t.MaxLatency]

\* The loop of AvgLatency: total += latency.
RECURSIVE TotalLatency(_)
TotalLatency(latencies) ==
    IF latencies = <<>> THEN 0
    ELSE Head(latencies) + TotalLatency(Tail(latencies))

\* AvgLatency dividing by the number of successful requests.
AvgLatencyOfSuccessful(t) ==
    IF t.Successful = 0 THEN 0
    ELSE GoDiv(TotalLatency(t.Latencies), t.Successful)

\* Tracker.AvgLatency.
AvgLatency(t) ==
    IF Len(t.Latencies) = 0 THEN 0
    ELSE GoDiv(TotalLatency(t.Latencies), Len(t.Latencies))

\* The loop of calculateStdDev: sumSquares += diff * diff.
RECURSIVE SumSquares(_, _)
SumSquares(latencies, avg) ==
    IF latencies = <<>> THEN 0
    ELSE (Head(latencies) - avg) * (Head(latencies) - avg)
         + SumSquares(Tail(latencies), avg)

CeilDiv(a, b) == (a + b - 1) \div b

\* One step x = (x + variance/x) / 2 on a float64 x known to lie in
\* [iv.lo, iv.hi], the variance lying in [vlo, vhi]: the bounds of the new x
\* rounded outwards to integers.  x never falls below 1 once it is positive.
NewtonStep(iv, vlo, vhi) ==
    LET lo == (iv.lo + vlo \div iv.hi) \div 2
    IN  [lo |-> IF lo < 1 THEN 1 ELSE lo,
         hi |-> CeilDiv(iv.hi + CeilDiv(vhi, iv.lo), 2)]

RECURSIVE Newton(_, _, _, _)
Newton(iv, vlo, vhi, steps) ==
    IF steps = 0 THEN iv
    ELSE Newton(NewtonStep(iv, vlo, vhi), vlo, vhi, steps - 1)

\* calculateStdDev(latencies, avg): the values the float64 computation can
\* return.  Every intermediate value is exact or enclosed between integers;
\* the truncation int64(x) of the last x may fall one below its lower bound
\* when x is rounded just under an integer.
calculateStdDev(latencies, avg) ==
    IF Len(latencies) = 0 THEN {0}
    ELSE LET sumSquares == SumSquares(latencies, avg)
             vlo    == sumSquares \div Len(latencies)
             vhi    == CeilDiv(sumSquares, Len(latencies))
             stdDev == vlo
         IN  IF stdDev > 0
             THEN LET x == Newton([lo |-> stdDev, hi |-> stdDev], vlo, vhi,
                                  NewtonSteps)
                  IN  (IF x.lo > 1 THEN x.lo - 1 ELSE 0)..x.hi
             ELSE {stdDev}

\* A float64 the queries return, as the exact fraction <<numerator,
\* denominator>>; a zero denominator is the NaN of 0/0.
Fraction(num, den) == <<num, den>>

\* BatchSummary.SuccessRate.
SuccessRate(bs) ==
    IF bs.Total = 0 THEN Fraction(0, 1)
    ELSE Fraction(bs.Successful * 100, bs.Total)

\* Tracker.SuccessRate dividing whatever the total is.
TrackerSuccessRateUnguarded(t) == Fraction(t.Successful * 100, t.Total)

\* Tracker.SuccessRate.
TrackerSuccessRate(t) ==
    IF t.Total = 0 THEN Fraction(0, 1)
    ELSE Fraction(t.Successful * 100, t.Total)

\* sort.Slice with the comparison sorted[i] < sorted[j]: insertion of each
\* element into the sorted rest.
RECURSIVE Insert(_, _)
Insert(x, sorted) ==
    IF sorted = <<>> THEN <<x>>
    ELSE IF x <= Head(sorted) THEN <<x>> \o sorted
    ELSE <<Head(sorted)>> \o Insert(x, Tail(sorted))

RECURSIVE SortAscending(_)
SortAscending(xs) ==
    IF xs = <<>> THEN <<>>
    ELSE Insert(Head(xs), SortAscending(Tail(xs)))

\* Percentile taking the element at index int(n*p), without the offset.
PercentileNoOffset(t, pct) ==
    IF Len(t.Latencies) = 0 THEN 0
    ELSE LET sorted == SortAscending(t.Latencies)
             index  == (Len(sorted) * pct) \div 100
             clamped == IF index < 0 THEN 0
                        ELSE IF index >= Len(sorted) THEN Len(sorted) - 1
                        ELSE index
         IN  sorted[clamped + 1]

\* Tracker.Percentile(p) for p = pct / 100: int(float64(n) * p) is the
\* floor of n * pct / 100; the slice index is from 0, the sequence's from 1.
Percentile(t, pct) ==
    IF Len(t.Latencies) = 0 THEN 0
    ELSE LET sorted == SortAscending(t.Latencies)
             index  == (Len(sorted) * pct) \div 100 - 1
             clamped == IF index < 0 THEN 0
                        ELSE IF index >= Len(sorted) THEN Len(sorted) - 1
                        ELSE index
         IN  sorted[clamped + 1]

\* NewHistory(maxSize).
NewHistory(maxSize) == [entries |-> <<>>, maxSize |-> maxSize]

\* Add appending the entry only while the history is not full.
AddDropsNewest(h, now, res) ==
    LET entry == [Timestamp |-> now, Result |-> res]
    IN  [h EXCEPT !.entries = IF Len(h.entries) + 1 > h.maxSize
                              THEN h.entries
                              ELSE Append(h.entries, entry)]

\* History.Add at the time now: the entry is appended, then the first entry
\* is dropped if there are more than maxSize.
Add(h, now, res) ==
    LET entry    == [Timestamp |-> now, Result |-> res]
        appended == Append(h.entries, entry)
    IN  [h EXCEPT !.entries = IF Len(appended) > h.maxSize
                              THEN Tail(appended)
                              ELSE appended]

\* GetRecent returning the first n entries.
GetRecentOldest(h, n) ==
    LET m == IF n > Len(h.entries) THEN Len(h.entries) ELSE n
    IN  SubSeq(h.entries, 1, m)

\* History.GetRecent(n): h.entries[start:], the slice index from 0.
GetRecent(h, n) ==
    LET m     == IF n > Len(h.entries) THEN Len(h.entries) ELSE n
        start == Len(h.entries) - m
    IN  SubSeq(h.entries, start + 1, Len(h.entries))

\* History.Size.
Size(h) == Len(h.entries)

\* time.Duration.Milliseconds.
Milliseconds(d) == GoDiv(d, Millisecond)

\* The JSONEndpoint with the message of the result as its error, whatever
\* the probe returned.
JSONEndpointOfMessage(r) ==
    [Name |-> r.Name, URL |-> r.URL, Method |-> r.Method,
     Status |-> r.Result.StatusCode, ExpectedStatus |-> r.ExpectedStatus,
     Latency |-> Milliseconds(r.Result.Latency), Size |-> r.Result.Size,
     Success |-> r.Success,
     Error |-> r.Message]

\* FormatBatchResultJSON, the body of its loop: the JSONEndpoint of a result.
JSONEndpointOf(r) ==
    [Name |-> r.Name, URL |-> r.URL, Method |-> r.Method,
     Status |-> r.Result.StatusCode, ExpectedStatus |-> r.ExpectedStatus,
     Latency |-> Milliseconds(r.Result.Latency), Size |-> r.Result.Size,
     Success |-> r.Success,
     Error |-> IF r.Result.Error THEN ErrorString
               ELSE IF ~r.Success THEN r.Message
               ELSE <<>>]

\* json.Marshal of a JSONEndpoint: one member per field under the name of its
\* json tag; the error member is omitted when the string is empty.
MarshalEndpoint(e) ==
    IF e.Error = <<>>
    THEN [name |-> e.Name, url |-> e.URL, method |-> e.Method,
          status |-> e.Status, expected_status |-> e.ExpectedStatus,
          latency_ms |-> e.Latency, size_bytes |-> e.Size,
          success |-> e.Success]
    ELSE [name |-> e.Name, url |-> e.URL, method |-> e.Method,
          status |-> e.Status, expected_status |-> e.ExpectedStatus,
          latency_ms |-> e.Latency, size_bytes |-> e.Size,
          success |-> e.Success, error |-> e.Error]

\* FormatBatchResultJSON: the JSON document of a summary.  A float64 is
\* written with the digits that parse back to it; the total time of the run
\* is not part of the model.
FormatBatchResultJSON(bs) ==
    [total          |-> bs.Total,
     successful     |-> bs.Successful,
     failed         |-> bs.Failed,
     slow           |-> bs.Slow,
     success_rate   |-> SuccessRate(bs),
     avg_latency_ms |-> Milliseconds(bs.AvgLatency),
     results        |-> [i \in 1..Len(bs.Results) |->
                            MarshalEndpoint(JSONEndpointOf(bs.Results[i]))]]

\* json.Unmarshal into a JSONEndpoint: a member that is absent leaves the
\* zero value of its field.
UnmarshalEndpoint(o) ==
    [Name |-> o.name, URL |-> o.url, Method |-> o.method,
     Status |-> o.status, ExpectedStatus |-> o.expected_status,
     Latency |-> o.latency_ms, Size |-> o.size_bytes,
     Success |-> o.success,
     Error |-> IF "error" \in DOMAIN o THEN o.error ELSE <<>>]

\* json.Unmarshal into a JSONBatchResult.
UnmarshalBatchResult(doc) ==
    [Total       |-> doc.total,
     Successful  |-> doc.successful,
     Failed      |-> doc.failed,
     Slow        |-> doc.slow,
     SuccessRate |-> doc.success_rate,
     AvgLatency  |-> doc.avg_latency_ms,
     Results     |-> [i \in 1..Len(doc.results) |->
                         UnmarshalEndpoint(doc.results[i])]]

\* No query has been called.
NoReturn == [call |-> "none"]

\* The watch command is not running.
WatchOff == [pc |-> "off"]

\* The watch mode's containers are new and unused.
WatchUnused ==
    /\ recorded = <<>>
    /\ history = NewHistory(WatchHistorySize)
    /\ added = <<>>
    /\ returned = NoReturn
    /\ watch = WatchOff

\* No call of Ping is under way: the --retries flag and the endpoint's
\* expected status are read, nothing else has happened.
PingCall(r, e) ==
    [pc |-> "idle", retries |-> r, expected |-> e, caller |-> "none",
     optsRetries |-> 0, attempt |-> 0, lastResult |-> ZeroResult,
     outcomes |-> <<>>, sleeps |-> <<>>, batchResult |-> NoResult]

PingIdle == PingCall(0, DefaultExpectedStatus)

----
\* displayBatchResultsJSON: FormatBatchResultJSON cannot fail on a summary
\* (SuccessRate is never NaN), so the exit code is decided by Failed.
displayBatchResultsJSON(bs) ==
    IF bs.Failed > 0 THEN ExitFailure ELSE ExitSuccess

\* displayBatchResultsCSV.
displayBatchResultsCSV(bs) ==
    IF bs.Failed > 0 THEN ExitFailure ELSE ExitSuccess

\* displayBatchResultsPretty.
displayBatchResultsPretty(bs) ==
    IF bs.Failed = 0 THEN ExitSuccess ELSE ExitFailure

\* displayBatchResults with quiet mode exiting 0 whatever was collected.
displayBatchResultsQuietZero(format, q, s, bs) ==
    CASE format = "json" -> displayBatchResultsJSON(bs)
      [] format = "csv" -> displayBatchResultsCSV(bs)
      [] format = "pretty" ->
            IF s THEN (IF bs.Failed > 0 THEN ExitFailure ELSE ExitSuccess)
            ELSE IF q THEN ExitSuccess
            ELSE displayBatchResultsPretty(bs)
      [] OTHER -> ExitError

\* displayBatchResults: the code the process exits with.
displayBatchResults(format, q, s, bs) ==
    CASE format = "json" -> displayBatchResultsJSON(bs)
      [] format = "csv" -> displayBatchResultsCSV(bs)
      [] format = "pretty" ->
            IF s THEN (IF bs.Failed > 0 THEN ExitFailure ELSE ExitSuccess)
            ELSE IF q THEN (IF bs.Failed > 0 THEN ExitFailure ELSE ExitSuccess)
            ELSE displayBatchResultsPretty(bs)
      [] OTHER -> ExitError

----
\* The state when runBatch starts, for every configuration and config file.
\* The concurrency key of the file is negative, absent (0) or up to
\* MaxConcurrency; absent, it becomes the default, which admits every
\* endpoint of the model at once.
Init ==
    /\ nEndpoints \in 0..MaxEndpoints
    /\ configOk \in BOOLEAN
    /\ concurrency \in (-1)..MaxConcurrency
    /\ failFast \in BOOLEAN
    /\ maxTimeSet \in BOOLEAN
    /\ mainPc = "load"
    /\ launched = 0
    /\ pc = [w \in Workers |-> "idle"]
    /\ result = [w \in Workers |-> NoResult]
    /\ semaphore = 0
    /\ wgCount = 0
    /\ stopped = FALSE
    /\ stopCloses = 0
    /\ ctxDone = FALSE
    /\ resultsChan = <<>>
    /\ resultsClosed = FALSE
    /\ closerPc = "none"
    /\ panicked = FALSE
    /\ summary = NewBatchSummary
    /\ dispatched = {}
    /\ late = {}
    /\ failedProbes = {}
    /\ outputFormat = "unread"
    /\ quiet = FALSE
    /\ silent = FALSE
    /\ deadlineWarned = FALSE
    /\ exitCode = NoExit
    /\ tracker = NewTracker
    /\ ping = PingIdle
    /\ WatchUnused

\* A panic in any goroutine ends the process: nothing runs afterwards.
Alive == ~panicked

\* A receive from stopChan is ready once the channel is closed.
StopChanClosed == stopCloses >= 1

\* A cancellation case of a select is ready.
Cancelled == StopChanClosed \/ ctxDone

\* The send on the semaphore channel is ready: its buffer is not full.
GateFreeOffByOne == semaphore <= concurrency
GateFree == semaphore < concurrency

\* wg.Wait returns: the counter is zero (the closer starts after the loop).
WaitDoneEarly == TRUE
WaitDoneOneLeft == wgCount <= 1
WaitDone == wgCount = 0

\* LoadBatchConfig returns an error: the file is missing, unreadable, not
\* YAML, names no endpoint or an endpoint without URL.
LoadBatchConfigFails == ~configOk \/ nEndpoints = 0

\* runBatch: the config does not load; exit with ExitError.
LoadConfigError ==
    /\ Alive
    /\ mainPc = "load"
    /\ LoadBatchConfigFails
    /\ mainPc' = "exited"
    /\ exitCode' = ExitError
    /\ UNCHANGED <<nEndpoints, concurrency, failFast, maxTimeSet, launched,
                   pc, result, semaphore, wgCount, stopped, stopCloses,
                   ctxDone, resultsChan, resultsClosed, closerPc, panicked,
                   summary, dispatched, late, failedProbes, configOk,
                   outputFormat, quiet, silent, deadlineWarned, otherVars>>

\* LoadBatchConfig: a concurrency of 0 (or none) in the file becomes 5.
ConcurrencyOrDefault(c) == IF c = 0 THEN DefaultConcurrency ELSE c

\* runBatch: a positive --concurrency flag replaces the file's value.
ConcurrencyOverride(c, flag) == IF flag > 0 THEN flag ELSE c

\* runBatch: the config loads, the --concurrency flag is applied and
\* runBatchTests is called, which makes its channels: make(chan struct{}, n)
\* panics for a negative n.
LoadConfigOk ==
    /\ Alive
    /\ mainPc = "load"
    /\ ~LoadBatchConfigFails
    /\ \E batchConcurrency \in (-1)..MaxConcurrency :
          concurrency' = ConcurrencyOverride(ConcurrencyOrDefault(concurrency),
                                            batchConcurrency)
    /\ panicked' = (concurrency' < 0)
    /\ mainPc' = "launch"
    /\ UNCHANGED <<nEndpoints, failFast, maxTimeSet, launched,
                   pc, result, semaphore, wgCount, stopped, stopCloses,
                   ctxDone, resultsChan, resultsClosed, closerPc,
                   summary, dispatched, late, failedProbes, configOk,
                   displayVars, otherVars>>

\* The loop body: wg.Add(1); go func(ep).
Launch ==
    /\ Alive
    /\ mainPc = "launch"
    /\ launched < nEndpoints
    /\ launched' = launched + 1
    /\ wgCount' = wgCount + 1
    /\ pc' = [pc EXCEPT ![launched + 1] = "check"]
    /\ UNCHANGED <<nEndpoints, concurrency, failFast, maxTimeSet, mainPc,
                   result, semaphore, stopped, stopCloses, ctxDone,
                   resultsChan, resultsClosed, closerPc, panicked, summary,
                   dispatched, late,
                   failedProbes, configOk, displayVars, otherVars>>

\* After the loop: start the goroutine that closes resultsChan, then collect.
StartCollect ==
    /\ Alive
    /\ mainPc = "launch"
    /\ launched = nEndpoints
    /\ mainPc' = "collect"
    /\ closerPc' = "wait"
    /\ UNCHANGED <<nEndpoints, concurrency, failFast, maxTimeSet, launched,
                   pc, result, semaphore, wgCount, stopped, stopCloses,
                   ctxDone, resultsChan, resultsClosed, panicked, summary,
                   dispatched, late,
                   failedProbes, configOk, displayVars, otherVars>>

\* The timer of context.WithTimeout fires.
Expire ==
    /\ Alive
    /\ maxTimeSet
    /\ ~ctxDone
    /\ mainPc \in {"launch", "collect"}
    /\ ctxDone' = TRUE
    /\ UNCHANGED <<nEndpoints, concurrency, failFast, maxTimeSet, mainPc,
                   launched, pc, result, semaphore, wgCount, stopped,
                   stopCloses, resultsChan, resultsClosed, closerPc, panicked,
                   summary, dispatched, late,
                   failedProbes, configOk, displayVars, otherVars>>

\* The first select, with a default case: return when cancelled.
PreCheck(w) ==
    /\ Alive
    /\ pc[w] = "check"
    /\ pc' = [pc EXCEPT ![w] = IF Cancelled THEN "wgdone" ELSE "acquire"]
    /\ UNCHANGED <<nEndpoints, concurrency, failFast, maxTimeSet, mainPc,
                   launched, result, semaphore, wgCount, stopped, stopCloses,
                   ctxDone, resultsChan, resultsClosed, closerPc, panicked,
                   summary, dispatched, late,
                   failedProbes, configOk, displayVars, otherVars>>

\* The second select, case semaphore <- struct{}{}.
AcquireGate(w) ==
    /\ Alive
    /\ pc[w] = "acquire"
    /\ GateFree
    /\ semaphore' = semaphore + 1
    /\ dispatched' = dispatched \cup {w}
    /\ pc' = [pc EXCEPT ![w] = "probe"]
    /\ UNCHANGED <<nEndpoints, concurrency, failFast, maxTimeSet, mainPc,
                   launched, result, wgCount, stopped, stopCloses, ctxDone,
                   resultsChan, resultsClosed, closerPc, panicked, summary,
                   late,
                   failedProbes, configOk, displayVars, otherVars>>

\* The second select, cases <-stopChan and <-ctx.Done(): return.
AcquireSkip(w) ==
    /\ Alive
    /\ pc[w] = "acquire"
    /\ Cancelled
    /\ pc' = [pc EXCEPT ![w] = "wgdone"]
    /\ UNCHANGED <<nEndpoints, concurrency, failFast, maxTimeSet, mainPc,
                   launched, result, semaphore, wgCount, stopped, stopCloses,
                   ctxDone, resultsChan, resultsClosed, closerPc, panicked,
                   summary, dispatched, late,
                   failedProbes, configOk, displayVars, otherVars>>

\* The probe step giving the slot back as soon as testEndpoint returns,
\* before the result is sent.
ProbeReleasesGate(w) ==
    /\ Alive
    /\ pc[w] = "probe"
    /\ \E r \in ProbeOutcomes(BatchLatencies) :
          LET br == testEndpoint(w, DefaultExpectedStatus, r) IN
          /\ result' = [result EXCEPT ![w] = br]
          /\ failedProbes' = IF br.Success THEN failedProbes
                             ELSE failedProbes \cup {w}
    /\ semaphore' = semaphore - 1
    /\ pc' = [pc EXCEPT ![w] = "send"]
    /\ UNCHANGED <<nEndpoints, concurrency, failFast, maxTimeSet, mainPc,
                   launched, wgCount, stopped, stopCloses, ctxDone,
                   resultsChan, resultsClosed, closerPc, panicked, summary,
                   dispatched, late, configOk, displayVars, otherVars>>

\* result := testEndpoint(ep, batchConfig.Timeout), for any probe outcome.
Probe(w) ==
    /\ Alive
    /\ pc[w] = "probe"
    /\ \E r \in ProbeOutcomes(BatchLatencies) :
          LET br == testEndpoint(w, DefaultExpectedStatus, r) IN
          /\ result' = [result EXCEPT ![w] = br]
          /\ failedProbes' = IF br.Success THEN failedProbes
                             ELSE failedProbes \cup {w}
    /\ pc' = [pc EXCEPT ![w] = "send"]
    /\ UNCHANGED <<nEndpoints, concurrency, failFast, maxTimeSet, mainPc,
                   launched, semaphore, wgCount, stopped, stopCloses, ctxDone,
                   resultsChan, resultsClosed, closerPc, panicked, summary,
                   dispatched, late, configOk, displayVars, otherVars>>

\* The worker adding its result to the summary itself, without the channel.
SendResultToSummary(w) ==
    /\ Alive
    /\ pc[w] = "send"
    /\ summary' = AddResult(summary, result[w])
    /\ pc' = [pc EXCEPT ![w] = "sent"]
    /\ UNCHANGED <<nEndpoints, concurrency, failFast, maxTimeSet, mainPc,
                   launched, result, semaphore, wgCount, stopped, stopCloses,
                   ctxDone, resultsChan, resultsClosed, closerPc, panicked,
                   dispatched, late, failedProbes, configOk, displayVars,
                   otherVars>>

\* The third select, case resultsChan <- result.  The buffer holds one slot
\* per endpoint, so the send is always ready; on a closed channel it panics.
SendResult(w) ==
    /\ Alive
    /\ pc[w] = "send"
    /\ Len(resultsChan) < nEndpoints
    /\ IF resultsClosed
       THEN /\ panicked' = TRUE
            /\ UNCHANGED <<resultsChan, pc, late>>
       ELSE /\ resultsChan' = Append(resultsChan, result[w])
            /\ pc' = [pc EXCEPT ![w] = "sent"]
            /\ late' = IF Cancelled THEN late \cup {w} ELSE late
            /\ UNCHANGED panicked
    /\ UNCHANGED <<nEndpoints, concurrency, failFast, maxTimeSet, mainPc,
                   launched, result, semaphore, wgCount, stopped, stopCloses,
                   ctxDone, resultsClosed, closerPc, summary, dispatched,
                   failedProbes, configOk, displayVars, otherVars>>

\* The third select, cases <-stopChan and <-ctx.Done(): return.
SendSkip(w) ==
    /\ Alive
    /\ pc[w] = "send"
    /\ Cancelled
    /\ pc' = [pc EXCEPT ![w] = "release"]
    /\ result' = [result EXCEPT ![w] = NoResult]
    /\ UNCHANGED <<nEndpoints, concurrency, failFast, maxTimeSet, mainPc,
                   launched, semaphore, wgCount, stopped, stopCloses, ctxDone,
                   resultsChan, resultsClosed, closerPc, panicked, summary,
                   dispatched, late,
                   failedProbes, configOk, displayVars, otherVars>>

\* The fail-fast test raising the stop for any delivered result.
CheckStoppedAnyResult(w) ==
    /\ Alive
    /\ pc[w] = "sent"
    /\ pc' = [pc EXCEPT ![w] =
                 IF failFast /\ ~stopped
                 THEN "setStopped" ELSE "release"]
    /\ result' = [result EXCEPT ![w] = NoResult]
    /\ UNCHANGED <<nEndpoints, concurrency, failFast, maxTimeSet, mainPc,
                   launched, semaphore, wgCount, stopped, stopCloses, ctxDone,
                   resultsChan, resultsClosed, closerPc, panicked, summary,
                   dispatched, late,
                   failedProbes, configOk, displayVars, otherVars>>

\* if failFast && !result.Success && !stopped: the read of stopped.  The flag
\* is a plain bool shared by the workers without synchronisation, so the
\* read, the write (SetStopped) and the close (CloseStop) are separate steps
\* that other workers interleave with.
CheckStopped(w) ==
    /\ Alive
    /\ pc[w] = "sent"
    /\ pc' = [pc EXCEPT ![w] =
                 IF failFast /\ ~result[w].Success /\ ~stopped
                 THEN "setStopped" ELSE "release"]
    /\ result' = [result EXCEPT ![w] = NoResult]
    /\ UNCHANGED <<nEndpoints, concurrency, failFast, maxTimeSet, mainPc,
                   launched, semaphore, wgCount, stopped, stopCloses, ctxDone,
                   resultsChan, resultsClosed, closerPc, panicked, summary,
                   dispatched, late,
                   failedProbes, configOk, displayVars, otherVars>>

\* stopped = true.
SetStopped(w) ==
    /\ Alive
    /\ pc[w] = "setStopped"
    /\ stopped' = TRUE
    /\ pc' = [pc EXCEPT ![w] = "closeStop"]
    /\ UNCHANGED <<nEndpoints, concurrency, failFast, maxTimeSet, mainPc,
                   launched, result, semaphore, wgCount, stopCloses, ctxDone,
                   resultsChan, resultsClosed, closerPc, panicked, summary,
                   dispatched, late,
                   failedProbes, configOk, displayVars, otherVars>>

\* close(stopChan): closing a closed channel panics.
CloseStop(w) ==
    /\ Alive
    /\ pc[w] = "closeStop"
    /\ stopCloses' = stopCloses + 1
    /\ panicked' = StopChanClosed
    /\ pc' = [pc EXCEPT ![w] = "release"]
    /\ UNCHANGED <<nEndpoints, concurrency, failFast, maxTimeSet, mainPc,
                   launched, result, semaphore, wgCount, stopped, ctxDone,
                   resultsChan, resultsClosed, closerPc, summary, dispatched,
                   late,
                   failedProbes, configOk, displayVars, otherVars>>

\* The deferred func() { <-semaphore }().
Release(w) ==
    /\ Alive
    /\ pc[w] = "release"
    /\ semaphore' = semaphore - 1
    /\ pc' = [pc EXCEPT ![w] = "wgdone"]
    /\ UNCHANGED <<nEndpoints, concurrency, failFast, maxTimeSet, mainPc,
                   launched, result, wgCount, stopped, stopCloses, ctxDone,
                   resultsChan, resultsClosed, closerPc, panicked, summary,
                   dispatched, late,
                   failedProbes, configOk, displayVars, otherVars>>

\* The deferred wg.Done().
WgDone(w) ==
    /\ Alive
    /\ pc[w] = "wgdone"
    /\ wgCount' = wgCount - 1
    /\ pc' = [pc EXCEPT ![w] = "done"]
    /\ UNCHANGED <<nEndpoints, concurrency, failFast, maxTimeSet, mainPc,
                   launched, result, semaphore, stopped, stopCloses, ctxDone,
                   resultsChan, resultsClosed, closerPc, panicked, summary,
                   dispatched, late,
                   failedProbes, configOk, displayVars, otherVars>>

\* go func() { wg.Wait(); close(resultsChan) }().
CloseResults ==
    /\ Alive
    /\ closerPc = "wait"
    /\ WaitDone
    /\ resultsClosed' = TRUE
    /\ closerPc' = "done"
    /\ UNCHANGED <<nEndpoints, concurrency, failFast, maxTimeSet, mainPc,
                   launched, pc, result, semaphore, wgCount, stopped,
                   stopCloses, ctxDone, resultsChan, panicked, summary,
                   dispatched, late,
                   failedProbes, configOk, displayVars, otherVars>>

\* The collector adding the head of the channel without receiving it.
CollectNoDequeue ==
    /\ Alive
    /\ mainPc = "collect"
    /\ resultsChan # <<>>
    /\ summary' = AddResult(summary, Head(resultsChan))
    /\ UNCHANGED <<nEndpoints, concurrency, failFast, maxTimeSet, mainPc,
                   launched, pc, result, semaphore, wgCount, stopped,
                   stopCloses, ctxDone, resultsChan, resultsClosed, closerPc,
                   panicked, dispatched, late,
                   failedProbes, configOk, displayVars, otherVars>>

\* The collector taking the newest element of the channel instead of the
\* oldest.
CollectNewest ==
    /\ Alive
    /\ mainPc = "collect"
    /\ resultsChan # <<>>
    /\ summary' = AddResult(summary, resultsChan[Len(resultsChan)])
    /\ resultsChan' = SubSeq(resultsChan, 1, Len(resultsChan) - 1)
    /\ UNCHANGED <<nEndpoints, concurrency, failFast, maxTimeSet, mainPc,
                   launched, pc, result, semaphore, wgCount, stopped,
                   stopCloses, ctxDone, resultsClosed, closerPc, panicked,
                   dispatched, late,
                   failedProbes, configOk, displayVars, otherVars>>

\* for result := range resultsChan { summary.AddResult(result) }.
Collect ==
    /\ Alive
    /\ mainPc = "collect"
    /\ resultsChan # <<>>
    /\ summary' = AddResult(summary, Head(resultsChan))
    /\ resultsChan' = Tail(resultsChan)
    /\ UNCHANGED <<nEndpoints, concurrency, failFast, maxTimeSet, mainPc,
                   launched, pc, result, semaphore, wgCount, stopped,
                   stopCloses, ctxDone, resultsClosed, closerPc, panicked,
                   dispatched, late,
                   failedProbes, configOk, displayVars, otherVars>>

\* ctx.Err() == context.DeadlineExceeded, with the check comparing against
\* context.Canceled instead.
DeadlineExceededWrongError == FALSE

\* ctx.Err() == context.DeadlineExceeded.
DeadlineExceeded == ctxDone

\* The collector loop also ending when the deadline has expired, whatever
\* the workers are doing.
ReturnAtDeadline ==
    /\ Alive
    /\ mainPc = "collect"
    /\ \/ resultsChan = <<>> /\ resultsClosed
       \/ ctxDone
    /\ mainPc' = "returned"
    /\ outputFormat' \in OutputFormats
    /\ quiet' \in BOOLEAN
    /\ silent' \in BOOLEAN
    /\ deadlineWarned' = (DeadlineExceeded /\ ~silent')
    /\ UNCHANGED <<nEndpoints, concurrency, failFast, maxTimeSet, launched,
                   pc, result, semaphore, wgCount, stopped, stopCloses,
                   ctxDone, resultsChan, resultsClosed, closerPc, panicked,
                   summary, dispatched, late, failedProbes, configOk,
                   exitCode, otherVars>>

\* The range loop ends: the channel is closed and drained; the max-time
\* warning is printed unless silent; return summary.  The flags are fixed
\* for the whole run; the warning is their first use that changes the state
\* (before it they only select what the collector prints), so they are drawn
\* here, once.
Return ==
    /\ Alive
    /\ mainPc = "collect"
    /\ resultsChan = <<>>
    /\ resultsClosed
    /\ mainPc' = "returned"
    /\ outputFormat' \in OutputFormats
    /\ quiet' \in BOOLEAN
    /\ silent' \in BOOLEAN
    /\ deadlineWarned' = (DeadlineExceeded /\ ~silent')
    /\ UNCHANGED <<nEndpoints, concurrency, failFast, maxTimeSet, launched,
                   pc, result, semaphore, wgCount, stopped, stopCloses,
                   ctxDone, resultsChan, resultsClosed, closerPc, panicked,
                   summary, dispatched, late, failedProbes, configOk,
                   exitCode, otherVars>>

\* runBatch after runBatchTests: displayBatchResults(summary) exits.
Display ==
    /\ Alive
    /\ mainPc = "returned"
    /\ mainPc' = "exited"
    /\ exitCode' = displayBatchResults(outputFormat, quiet, silent, summary)
    /\ UNCHANGED <<nEndpoints, concurrency, failFast, maxTimeSet, launched,
                   pc, result, semaphore, wgCount, stopped, stopCloses,
                   ctxDone, resultsChan, resultsClosed, closerPc, panicked,
                   summary, dispatched, late, failedProbes, configOk,
                   outputFormat, quiet, silent, deadlineWarned, otherVars>>

WorkerStep(w) ==
    \/ PreCheck(w)
    \/ AcquireGate(w)
    \/ AcquireSkip(w)
    \/ Probe(w)
    \/ SendResult(w)
    \/ SendSkip(w)
    \/ CheckStopped(w)
    \/ SetStopped(w)
    \/ CloseStop(w)
    \/ Release(w)
    \/ WgDone(w)

Next ==
    \/ LoadConfigError
    \/ LoadConfigOk
    \/ Launch
    \/ StartCollect
    \/ Expire
    \/ \E w \in Workers : WorkerStep(w)
    \/ CloseResults
    \/ Collect
    \/ Return
    \/ Display

Spec == Init /\ [][Next]_vars

----
\* Arbitrary AddResult calls on a new BatchSummary.
InitSummary ==
    /\ nEndpoints = 0
    /\ concurrency = 1
    /\ failFast = FALSE
    /\ maxTimeSet = FALSE
    /\ mainPc = "none"
    /\ launched = 0
    /\ pc = [w \in Workers |-> "idle"]
    /\ result = [w \in Workers |-> NoResult]
    /\ semaphore = 0
    /\ wgCount = 0
    /\ stopped = FALSE
    /\ stopCloses = 0
    /\ ctxDone = FALSE
    /\ resultsChan = <<>>
    /\ resultsClosed = FALSE
    /\ closerPc = "none"
    /\ panicked = FALSE
    /\ summary = NewBatchSummary
    /\ dispatched = {}
    /\ late = {}
    /\ failedProbes = {}
    /\ configOk = TRUE
    /\ outputFormat = "unread"
    /\ quiet = FALSE
    /\ silent = FALSE
    /\ deadlineWarned = FALSE
    /\ exitCode = NoExit
    /\ tracker = NewTracker
    /\ ping = PingIdle
    /\ WatchUnused

\* One call summary.AddResult(r), r built by testEndpoint from any outcome.
CallAddResult ==
    /\ summary.Total < MaxAdds
    /\ \E r \in ProbeOutcomes(Latencies) :
          summary' = AddResult(summary,
                               testEndpoint(summary.Total + 1,
                                            DefaultExpectedStatus, r))
    /\ UNCHANGED <<batchVars, otherVars>>

NextSummary == CallAddResult

SpecSummary == InitSummary /\ [][NextSummary]_vars

----
\* One call of request.Ping, from testEndpoint (batch mode) or from runPing
\* (single mode), with every outcome of every request attempt.

\* No batch run is under way.
Quiescent ==
    /\ nEndpoints = 0
    /\ concurrency = 1
    /\ failFast = FALSE
    /\ maxTimeSet = FALSE
    /\ mainPc = "none"
    /\ launched = 0
    /\ pc = [w \in Workers |-> "idle"]
    /\ result = [w \in Workers |-> NoResult]
    /\ semaphore = 0
    /\ wgCount = 0
    /\ stopped = FALSE
    /\ stopCloses = 0
    /\ ctxDone = FALSE
    /\ resultsChan = <<>>
    /\ resultsClosed = FALSE
    /\ closerPc = "none"
    /\ panicked = FALSE
    /\ dispatched = {}
    /\ late = {}
    /\ failedProbes = {}
    /\ configOk = TRUE
    /\ outputFormat = "unread"
    /\ quiet = FALSE
    /\ silent = FALSE
    /\ deadlineWarned = FALSE
    /\ exitCode = NoExit

\* Everything a call of Ping and its caller leave alone, the exit code apart.
pingFrame == <<nEndpoints, concurrency, failFast, maxTimeSet, mainPc, launched,
               pc, result, semaphore, wgCount, stopped, stopCloses, ctxDone,
               resultsChan, resultsClosed, closerPc, panicked, dispatched,
               late, failedProbes, configOk, outputFormat, quiet, silent,
               deadlineWarned, summary, tracker, watchVars>>

\* Statuses an endpoint may expect.
ExpectedStatuses == {200, 500}

\* The --retries flag is any integer, a negative one included.
InitPing ==
    /\ Quiescent
    /\ summary = NewBatchSummary
    /\ tracker = NewTracker
    /\ \E r \in (-1)..MaxRetries, e \in ExpectedStatuses : ping = PingCall(r, e)
    /\ WatchUnused

\* testEndpoint builds its options and calls Ping.
CallTestEndpoint ==
    /\ ping.pc = "idle"
    /\ ping' = [ping EXCEPT !.pc = "loop", !.caller = "testEndpoint",
                            !.optsRetries = BatchRetries]
    /\ UNCHANGED <<pingFrame, exitCode>>

\* runPing builds its options and calls Ping.
CallRunPing ==
    /\ ping.pc = "idle"
    /\ ping' = [ping EXCEPT !.pc = "loop", !.caller = "runPing",
                            !.optsRetries = ping.retries]
    /\ UNCHANGED <<pingFrame, exitCode>>

\* maxAttempts := opts.Retries + 1.
maxAttempts == ping.optsRetries + 1

\* One iteration of Ping's loop up to the test of lastResult.Error.
MakeRequest ==
    /\ ping.pc = "loop"
    /\ ping.attempt < maxAttempts
    /\ \E r \in ProbeOutcomes(BatchLatencies) :
          ping' = [ping EXCEPT !.lastResult = r,
                               !.outcomes = Append(@, r),
                               !.pc = IF r.Error THEN "failed" ELSE "return"]
    /\ UNCHANGED <<pingFrame, exitCode>>

\* The rest of the iteration after a failed attempt: the sleep unless this
\* was the last attempt, then attempt++.
Backoff ==
    /\ ping.pc = "failed"
    /\ ping' = [ping EXCEPT !.sleeps = IF ping.attempt < maxAttempts - 1
                                       THEN Append(@, backoff(ping.attempt))
                                       ELSE @,
                            !.attempt = @ + 1,
                            !.pc = "loop"]
    /\ UNCHANGED <<pingFrame, exitCode>>

\* Ping returns lastResult: from inside the loop, or after it.
PingReturn ==
    /\ \/ ping.pc = "return"
       \/ ping.pc = "loop" /\ ping.attempt >= maxAttempts
    /\ ping' = [ping EXCEPT !.pc = "returned"]
    /\ UNCHANGED <<pingFrame, exitCode>>

\* testEndpoint builds the BatchResult from what Ping returned.
TestEndpointReturn ==
    /\ ping.pc = "returned"
    /\ ping.caller = "testEndpoint"
    /\ ping' = [ping EXCEPT !.pc = "done",
                            !.batchResult = testEndpoint(1, ping.expected,
                                                         ping.lastResult)]
    /\ UNCHANGED <<pingFrame, exitCode>>

\* runPing exits with 1 on an error, prints the result and ends otherwise.
RunPingReturn ==
    /\ ping.pc = "returned"
    /\ ping.caller = "runPing"
    /\ ping' = [ping EXCEPT !.pc = "done"]
    /\ exitCode' = IF ping.lastResult.Error THEN ExitFailure ELSE ExitSuccess
    /\ UNCHANGED pingFrame

NextPing ==
    \/ CallTestEndpoint
    \/ CallRunPing
    \/ MakeRequest
    \/ Backoff
    \/ PingReturn
    \/ TestEndpointReturn
    \/ RunPingReturn

SpecPing == InitPing /\ [][NextPing]_vars

----
\* The statistics containers under arbitrary calls: a BatchSummary under
\* AddResult (batch mode) or a Tracker under Record (watch mode); a process
\* runs one of the two modes.
InitStats ==
    /\ Quiescent
    /\ summary = NewBatchSummary
    /\ tracker = NewTracker
    /\ ping = PingIdle
    /\ WatchUnused

\* AddResult on the summary of a batch run.
StatsAddResult ==
    /\ tracker.Total = 0
    /\ CallAddResult

\* One call tracker.Record(latency, success), the latency taken from lats.
RecordFrom(lats) ==
    /\ summary.Total = 0
    /\ tracker.Total < MaxRecords
    /\ \E latency \in lats, success \in BOOLEAN :
          /\ tracker' = Record(tracker, latency, success)
          /\ recorded' = Append(recorded, [latency |-> latency,
                                           success |-> success])
    /\ UNCHANGED <<batchVars, summary, ping, history, added, returned, watch>>

\* One call tracker.Record(latency, success) of the watch loop.
CallRecord == RecordFrom(TrackerLatencies)

\* The latencies 1ms..i-1 ms recorded so far by TestTracker_Percentile.
TestRecorded(i) == [k \in 1..(i - 1) |-> k * Millisecond]

\* One iteration of the loop of TestTracker_Percentile.
TestRecord ==
    /\ summary.Total = 0
    /\ \E i \in 1..TestSamples :
          /\ tracker.Latencies = TestRecorded(i)
          /\ tracker' = Record(tracker, i * Millisecond, TRUE)
          /\ recorded' = Append(recorded, [latency |-> i * Millisecond,
                                           success |-> TRUE])
    /\ UNCHANGED <<batchVars, summary, ping, history, added, returned, watch>>

NextStats ==
    \/ StatsAddResult
    \/ CallRecord
    \/ TestRecord

SpecStats == InitStats /\ [][NextStats]_vars

\* A Tracker under the Record calls of the watch loop alone.
NextTracker == CallRecord

SpecTracker == InitStats /\ [][NextTracker]_vars

----
\* The Tracker's queries, called in any number and order between Records.

\* Percentile sorting the tracker's own slice: sorted := t.Latencies.
SortedAliased(t) ==
    [sorted    |-> SortAscending(t.Latencies),
     Latencies |-> SortAscending(t.Latencies)]

\* The slices of Percentile after its sort: sorted is made anew and filled by
\* copy, so sort.Slice moves the elements of sorted and none of t.Latencies.
SortedCopy(t) ==
    [sorted    |-> SortAscending(t.Latencies),
     Latencies |-> t.Latencies]

\* One call tracker.AvgLatency(): it reads Latencies.
QueryAvgLatency ==
    /\ returned' = [call |-> "AvgLatency", n |-> 0,
                    value |-> AvgLatency(tracker)]
    /\ UNCHANGED <<batchVars, summary, tracker, ping, recorded, history,
                   added, watch>>

\* One call tracker.Percentile(pct / 100).
QueryPercentile ==
    /\ \E pct \in Percentiles :
          returned' = [call |-> "Percentile", n |-> pct,
                       value |-> Percentile(tracker, pct)]
    /\ tracker' = [tracker EXCEPT !.Latencies = SortedCopy(tracker).Latencies]
    /\ UNCHANGED <<batchVars, summary, ping, recorded, history, added, watch>>

\* One call tracker.SuccessRate(): it reads Successful and Total.
QuerySuccessRate ==
    /\ returned' = [call |-> "SuccessRate", n |-> 0,
                    value |-> TrackerSuccessRate(tracker)]
    /\ UNCHANGED <<batchVars, summary, tracker, ping, recorded, history,
                   added, watch>>

NextQueries ==
    \/ CallRecord
    \/ QueryAvgLatency
    \/ QueryPercentile
    \/ QuerySuccessRate

SpecQueries == InitStats /\ [][NextQueries]_vars

----
\* The standard deviation of the watch summary over a tracker of fast
\* requests.
CallRecordMicro == RecordFrom(MicroLatencies)

\* displayWatchSummary: calculateStdDev(tracker.Latencies, AvgLatency()).
CallStdDev ==
    /\ \E v \in calculateStdDev(tracker.Latencies, AvgLatency(tracker)) :
          returned' = [call |-> "calculateStdDev", value |-> v]
    /\ UNCHANGED <<batchVars, summary, tracker, ping, recorded, history,
                   added, watch>>

NextStdDev ==
    \/ CallRecordMicro
    \/ CallStdDev

SpecStdDev == InitStats /\ [][NextStdDev]_vars

----
\* The watch command from the first request on: the main goroutine, the
\* goroutine of the watch loop, the ticker and the signal channel.  The
\* interval is positive; a run without count limit is followed for
\* MaxRequests requests.
WatchStart(count) ==
    [pc           |-> "first",   \* the main goroutine
     loop         |-> "none",    \* the goroutine of the watch loop
     watchCount   |-> count,     \* the --count flag
     requestCount |-> 0,
     sigPending   |-> FALSE,     \* a signal is buffered in sigChan
     interrupted  |-> FALSE,     \* a signal has arrived (history)
     summaries    |-> 0]         \* calls of displayWatchSummary (history)

InitWatch ==
    /\ Quiescent
    /\ summary = NewBatchSummary
    /\ tracker = NewTracker
    /\ ping = PingIdle
    /\ recorded = <<>>
    /\ history = NewHistory(WatchHistorySize)
    /\ added = <<>>
    /\ returned = NoReturn
    /\ \E count \in 0..MaxCount : watch = WatchStart(count)

\* makeWatchRequest: one Ping, recorded in the tracker and the history.
makeWatchRequest(r) ==
    /\ tracker' = Record(tracker, r.Latency, ~r.Error)
    /\ recorded' = Append(recorded, [latency |-> r.Latency,
                                     success |-> ~r.Error])
    /\ history' = Add(history, Len(added) + 1, r)
    /\ added' = Append(added, r)

\* The first request, made at once; then the watch loop is started and the
\* main goroutine waits on the done channel.
FirstRequest ==
    /\ watch.pc = "first"
    /\ \E r \in ProbeOutcomes(BatchLatencies) : makeWatchRequest(r)
    /\ watch' = [watch EXCEPT !.pc = "wait", !.loop = "select",
                              !.requestCount = @ + 1]
    /\ UNCHANGED <<batchVars, summary, ping, returned>>

\* Ctrl+C or SIGTERM arrives: the signal is put in sigChan, whose buffer
\* holds one.
Interrupt ==
    /\ watch.pc \in {"first", "wait"}
    /\ ~watch.sigPending
    /\ watch' = [watch EXCEPT !.sigPending = TRUE, !.interrupted = TRUE]
    /\ UNCHANGED <<batchVars, summary, tracker, ping, recorded, history,
                   added, returned>>

\* The select takes a tick.  ticker.C holds one tick, so a tick is ready
\* whenever an interval has passed since the last one was taken.
TakeTick ==
    /\ watch.loop = "select"
    /\ watch.requestCount < MaxRequests
    /\ watch' = [watch EXCEPT !.loop = "request"]
    /\ UNCHANGED <<batchVars, summary, tracker, ping, recorded, history,
                   added, returned>>

\* The body of the tick case: a request, then the test of the count limit.
LoopRequest ==
    /\ watch.loop = "request"
    /\ \E r \in ProbeOutcomes(BatchLatencies) : makeWatchRequest(r)
    /\ watch' = [watch EXCEPT
                    !.requestCount = @ + 1,
                    !.loop = IF watch.watchCount > 0
                                /\ watch.requestCount + 1 >= watch.watchCount
                             THEN "send" ELSE "select"]
    /\ UNCHANGED <<batchVars, summary, ping, returned>>

\* The signal case of the select going round the loop again instead of
\* stopping it.
TakeSignalKeepsLooping ==
    /\ watch.loop = "select"
    /\ watch.sigPending
    /\ watch' = [watch EXCEPT !.sigPending = FALSE]
    /\ UNCHANGED <<batchVars, summary, tracker, ping, recorded, history,
                   added, returned>>

\* The select takes the signal.
TakeSignal ==
    /\ watch.loop = "select"
    /\ watch.sigPending
    /\ watch' = [watch EXCEPT !.sigPending = FALSE, !.loop = "send"]
    /\ UNCHANGED <<batchVars, summary, tracker, ping, recorded, history,
                   added, returned>>

\* done <- true meets <-done: the loop's goroutine returns, the main
\* goroutine goes on to the summary.
Done ==
    /\ watch.loop = "send"
    /\ watch.pc = "wait"
    /\ watch' = [watch EXCEPT !.loop = "returned", !.pc = "summary"]
    /\ UNCHANGED <<batchVars, summary, tracker, ping, recorded, history,
                   added, returned>>

\* displayWatchSummary, and runWatch returns.
WatchSummary ==
    /\ watch.pc = "summary"
    /\ watch' = [watch EXCEPT !.pc = "done", !.summaries = @ + 1]
    /\ UNCHANGED <<batchVars, summary, tracker, ping, recorded, history,
                   added, returned>>

NextWatch ==
    \/ FirstRequest
    \/ Interrupt
    \/ TakeTick
    \/ LoopRequest
    \/ TakeSignal
    \/ Done
    \/ WatchSummary

SpecWatch == InitWatch /\ [][NextWatch]_vars

\* The watch command under fair scheduling: a request returns (Ping has a
\* timeout), a goroutine that can run does, and the select, which chooses
\* at random among its ready cases, does not pass over a pending signal
\* forever.  Ticks and signals come as the clock and the user bring them.
WatchFairness ==
    /\ WF_vars(FirstRequest)
    /\ WF_vars(LoopRequest)
    /\ SF_vars(TakeSignal)
    /\ WF_vars(Done)
    /\ WF_vars(WatchSummary)

SpecWatchFair == InitWatch /\ [][NextWatch]_vars /\ WatchFairness

----
\* A History of any capacity under Add and GetRecent calls.  The timestamp
\* of an entry is the number of the Add call that made it.
InitHistory ==
    /\ Quiescent
    /\ summary = NewBatchSummary
    /\ tracker = NewTracker
    /\ ping = PingIdle
    /\ recorded = <<>>
    /\ \E c \in 1..MaxCapacity : history = NewHistory(c)
    /\ added = <<>>
    /\ returned = NoReturn
    /\ watch = WatchOff

\* One call history.Add(result).
CallAdd ==
    /\ Len(added) < MaxHistoryAdds
    /\ \E r \in ProbeOutcomes(BatchLatencies) :
          /\ history' = Add(history, Len(added) + 1, r)
          /\ added' = Append(added, r)
    /\ UNCHANGED <<batchVars, summary, tracker, ping, recorded, returned,
                   watch>>

\* One call history.GetRecent(n), n >= 0.
CallGetRecent ==
    /\ \E n \in 0..(MaxCapacity + 1) :
          returned' = [call |-> "GetRecent", n |-> n,
                       value |-> GetRecent(history, n)]
    /\ UNCHANGED <<batchVars, summary, tracker, ping, recorded, history,
                   added, watch>>

NextHistory ==
    \/ CallAdd
    \/ CallGetRecent

SpecHistory == InitHistory /\ [][NextHistory]_vars

----
\* Helpers of the properties.
RECURSIVE SumLatency(_)
SumLatency(rs) ==
    IF rs = <<>> THEN 0
    ELSE Head(rs).Result.Latency + SumLatency(Tail(rs))

ErrorFree(rs) == SelectSeq(rs, LAMBDA r : ~r.Result.Error)

AllErrorFree(rs) == \A i \in 1..Len(rs) : ~rs[i].Result.Error

\* Workers that hold a semaphore slot and have not finished testEndpoint.
InFlight == {w \in Workers : pc[w] = "probe"}

\* The first result delivered to the collector, if any.
FirstDelivered ==
    IF summary.Results # <<>> THEN summary.Results[1]
    ELSE IF resultsChan # <<>> THEN Head(resultsChan)
    ELSE NoResult

FirstFailed == FirstDelivered # NoResult /\ ~FirstDelivered.Success

----
\* C1: at no point of a run does the number of probes in flight (semaphore
\* acquired, testEndpoint not finished) exceed the configured concurrency.
C1_ConcurrencyBound ==
    concurrency >= 1 => Cardinality(InFlight) <= concurrency

\* C1 witness: the gate is full of running probes and another worker waits.
C1_Witness ==
    /\ Cardinality(InFlight) = concurrency
    /\ \E w \in Workers : pc[w] = "acquire"

\* C2: without fail-fast and without deadline expiry the returned summary
\* counts every endpoint: Total = N, Successful + Failed = N, len(Results) = N.
C2_TotalAccounting ==
    (mainPc = "returned" /\ ~failFast /\ ~ctxDone) =>
        /\ summary.Total = nEndpoints
        /\ summary.Successful + summary.Failed = nEndpoints
        /\ Len(summary.Results) = nEndpoints

\* C2 witness: a two-lane run of two endpoints returned, one passed, one failed.
C2_Witness ==
    /\ mainPc = "returned" /\ ~failFast /\ ~ctxDone
    /\ nEndpoints = 2 /\ concurrency >= 2
    /\ summary.Successful = 1 /\ summary.Failed = 1

\* C3: once the stop signal is raised or the deadline has expired, no worker
\* acquires the admission gate any more.
C3_NoAdmissionAfterCancel == [][Cancelled => dispatched' = dispatched]_vars

\* C4: failFast, concurrency 1, N >= 2 (no deadline): if the first probe
\* failed then, once its failure is observed, no other endpoint is dispatched
\* and the returned summary has Total < N.
C4_FailFastSingleLane ==
    (failFast /\ concurrency = 1 /\ nEndpoints >= 2 /\ ~maxTimeSet
       /\ FirstFailed) =>
        /\ StopChanClosed => Cardinality(dispatched) = 1
        /\ mainPc = "returned" => summary.Total < nEndpoints

\* C5: a result whose worker reached result delivery after cancellation is
\* never added to the summary.
C5_LateResultDiscarded ==
    \A i \in 1..Len(summary.Results) : summary.Results[i].Name \notin late

\* C6: each endpoint contributes at most one BatchResult, and Total never
\* exceeds the number of probes started, which never exceeds N.
C6_AtMostOnce ==
    /\ \A i, j \in 1..Len(summary.Results) :
          i # j => summary.Results[i].Name # summary.Results[j].Name
    /\ summary.Total <= Cardinality(dispatched)
    /\ Cardinality(dispatched) <= nEndpoints

\* C6 witness: a returned run that started two probes and collected both.
C6_Witness ==
    /\ mainPc = "returned"
    /\ Cardinality(dispatched) = 2
    /\ summary.Total = 2

\* C7: stopChan is closed at most once per run.
C7_StopRaisedOnce == stopCloses <= 1

\* C8: after any sequence of AddResult calls Total = Successful + Failed,
\* Slow <= Total and len(Results) = Total.
C8_SummaryInvariant ==
    /\ summary.Total = summary.Successful + summary.Failed
    /\ summary.Slow <= summary.Total
    /\ Len(summary.Results) = summary.Total

\* C8 witness: passed, failed and slow results have all been added.
C8_Witness ==
    /\ summary.Total = MaxAdds
    /\ summary.Successful >= 1 /\ summary.Failed >= 1 /\ summary.Slow >= 1

\* C9: AvgLatency is the arithmetic mean of the latencies of the error-free
\* results added so far, whether or not errored results were added between
\* them.  Stated up to the integer truncation of the k-th update, which
\* loses less than one unit per earlier result (see C10), so that only the
\* treatment of errored results can violate it.
C9_AvgOfErrorFree ==
    LET ok == ErrorFree(summary.Results)
        n  == Len(ok)
        s  == SumLatency(ok)
    IN n >= 1 =>
          /\ n * summary.AvgLatency <= s
          /\ 2 * (s - n * summary.AvgLatency) <= n * (n - 1)

\* C10 as claimed: for error-free results only, AvgLatency after the n-th
\* AddResult equals the resummed mean, sum \div n.
C10_NoDrift ==
    (summary.Total >= 1 /\ AllErrorFree(summary.Results)) =>
        summary.AvgLatency = SumLatency(summary.Results) \div summary.Total

\* C10 amended: for error-free results only, n * AvgLatency never exceeds the
\* sum and falls short of it by at most n(n-1)/2; for n <= 2 it is the
\* truncated resummed mean.
C10_BoundedDrift ==
    (summary.Total >= 1 /\ AllErrorFree(summary.Results)) =>
        LET n == summary.Total
            s == SumLatency(summary.Results)
        IN /\ n * summary.AvgLatency <= s
           /\ 2 * (s - n * summary.AvgLatency) <= n * (n - 1)
           /\ n <= 2 => summary.AvgLatency = s \div n

\* C10 witness: three error-free results whose running average has drifted
\* below the resummed mean.
C10_Witness ==
    /\ summary.Total = 3 /\ AllErrorFree(summary.Results)
    /\ summary.AvgLatency < SumLatency(summary.Results) \div 3

----
\* runBatchTests has returned its summary (the process may have exited since).
TestsReturned == mainPc \in {"returned", "exited"} /\ outputFormat # "unread"

ValidFormats == {"pretty", "json", "csv"}

\* C11: a batch run exits 0 only if every endpoint was probed and succeeded,
\* and exits 1 whenever a probe failed (for the valid output formats).
C11_ExitCodeSound ==
    (mainPc = "exited" /\ outputFormat \in ValidFormats) =>
        /\ exitCode = ExitSuccess =>
              (dispatched = 1..nEndpoints /\ failedProbes = {})
        /\ failedProbes # {} => exitCode = ExitFailure

\* C12: for every valid output format and every combination of quiet and
\* silent, the exit code of a completed run is 1 if Failed > 0, else 0.
C12_ExitCodeFromFailed ==
    (mainPc = "exited" /\ outputFormat \in ValidFormats) =>
        exitCode = IF summary.Failed > 0 THEN ExitFailure ELSE ExitSuccess

\* C12 witness: a quiet pretty run with a failed endpoint has exited.
C12_Witness ==
    /\ mainPc = "exited" /\ outputFormat = "pretty" /\ quiet /\ ~silent
    /\ summary.Failed > 0 /\ summary.Successful > 0

\* C13: exit code 2 is only produced before any probe has started.
C13_ErrorExitBeforeProbing == exitCode = ExitError => dispatched = {}

C15_NoCrashNoDeadlock ==
    /\ ~panicked
    /\ mainPc = "exited" \/ ENABLED Next

----
\* C16: in batch mode an endpoint is requested by at most one attempt:
\* testEndpoint calls Ping with Retries = 0 whatever the --retries flag, so
\* there is one attempt, no sleep, and the failed probe itself is reported.
C16_BatchSingleAttempt ==
    ping.caller = "testEndpoint" =>
        /\ ping.optsRetries = 0
        /\ Len(ping.outcomes) <= 1
        /\ ping.sleeps = <<>>
        /\ ping.pc = "done" =>
              /\ Len(ping.outcomes) = 1
              /\ ping.batchResult.Result = ping.outcomes[1]

\* A batch probe failed with --retries set, and is reported after one attempt.
C16_Witness ==
    /\ ping.caller = "testEndpoint"
    /\ ping.retries > 0
    /\ ping.pc = "done"
    /\ Len(ping.outcomes) = 1
    /\ ping.outcomes[1].Error
    /\ ~ping.batchResult.Success

\* C17: Ping with Retries = r >= 0 makes at most r+1 attempts, every attempt
\* before the last one made has an error, it returns the last attempt's
\* result, which has an error only if all r+1 attempts were made; the sleeps
\* are 1s, 2s, 4s, ... doubling, one between consecutive attempts and none
\* after the last.
C17_PingRetries ==
    (ping.caller # "none" /\ ping.optsRetries >= 0) =>
        LET n == Len(ping.outcomes)
            r == ping.optsRetries
        IN  /\ n <= r + 1
            /\ \A i \in 1..(n - 1) : ping.outcomes[i].Error
            /\ Len(ping.sleeps) <= r
            /\ Len(ping.sleeps) >= 1 => ping.sleeps[1] = 1
            /\ \A i \in 1..(Len(ping.sleeps) - 1) :
                    ping.sleeps[i + 1] = 2 * ping.sleeps[i]
            /\ ping.pc \in {"returned", "done"} =>
                  /\ n >= 1
                  /\ ping.lastResult = ping.outcomes[n]
                  /\ ping.outcomes[n].Error => n = r + 1
                  /\ Len(ping.sleeps) = n - 1

\* Three retries, four failed attempts, sleeps of 1s, 2s and 4s.
C17_Witness ==
    /\ ping.caller = "runPing"
    /\ ping.pc = "returned"
    /\ Len(ping.outcomes) = 4
    /\ ping.lastResult.Error
    /\ ping.sleeps = <<1, 2, 4>>

\* C18: the BatchResult of testEndpoint is successful iff the probe has no
\* error and its status is the expected one; a mismatch without error gives
\* the message "Expected X, got Y"; an error gives an unsuccessful result.
C18_SuccessIffExpected ==
    (ping.caller = "testEndpoint" /\ ping.pc = "done") =>
        LET b == ping.batchResult
            r == ping.lastResult
        IN  /\ b.Result = r
            /\ b.Success <=> ((~r.Error) /\ r.StatusCode = ping.expected)
            /\ ((~r.Error) /\ r.StatusCode # ping.expected) =>
                  b.Message = <<"Expected ", ping.expected,
                                ", got ", r.StatusCode>>
            /\ r.Error => ~b.Success

\* A probe answered 500 where 200 was expected.
C18_Witness ==
    /\ ping.caller = "testEndpoint"
    /\ ping.pc = "done"
    /\ ~ping.lastResult.Error
    /\ ping.expected = 200
    /\ ping.lastResult.StatusCode = 500
    /\ ~ping.batchResult.Success
    /\ ping.batchResult.Message = <<"Expected ", 200, ", got ", 500>>

----
\* C19: SuccessRate of BatchSummary and of Tracker is a number (never the
\* NaN of a division by zero), is 0 when Total is 0, equals
\* 100 * Successful / Total, and lies in [0, 100].
RateIsPercentage(rate, successful, total) ==
    /\ rate[2] > 0
    /\ total = 0 => rate[1] = 0
    /\ rate[1] * total = 100 * successful * rate[2]
    /\ 0 <= rate[1]
    /\ rate[1] <= 100 * rate[2]

C19_SuccessRate ==
    /\ RateIsPercentage(SuccessRate(summary),
                        summary.Successful, summary.Total)
    /\ RateIsPercentage(TrackerSuccessRate(tracker),
                        tracker.Successful, tracker.Total)

\* Two of three recorded requests succeeded: the rate is 200/3.
C19_Witness ==
    /\ tracker.Total = 3
    /\ tracker.Successful = 2
    /\ TrackerSuccessRate(tracker) = <<200, 3>>

\* C20: Percentile(p) of n >= 1 latencies is the element at index
\* floor(n*p) - 1, clamped to [0, n-1], of the ascending order: the value v
\* with fewer than index+1 latencies below it and at least index+1 latencies
\* not above it; Percentile(1.0) is the maximum, Percentile(0.0) the minimum;
\* for 1ms..100ms P50, P95, P99 are 50ms, 95ms, 99ms; it is 0 when empty.
PercentileIndex(n, pct) ==
    LET index == (n * pct) \div 100 - 1
    IN  IF index < 0 THEN 0 ELSE IF index > n - 1 THEN n - 1 ELSE index

IsOrderStatistic(v, xs, index) ==
    /\ \E i \in 1..Len(xs) : xs[i] = v
    /\ Cardinality({i \in 1..Len(xs) : xs[i] < v}) <= index
    /\ Cardinality({i \in 1..Len(xs) : xs[i] <= v}) >= index + 1

----
\* The latencies of the Record calls made so far.
RecordedLatencies == {recorded[i].latency : i \in 1..Len(recorded)}

\* C21: after a non-empty sequence of Record calls MinLatency is the minimum
\* and MaxLatency the maximum of the recorded latencies, also when a latency
\* of 0 was recorded.
C21_MinMaxOfRecorded ==
    recorded # <<>> =>
        /\ tracker.MinLatency \in RecordedLatencies
        /\ tracker.MaxLatency \in RecordedLatencies
        /\ \A l \in RecordedLatencies :
              tracker.MinLatency <= l /\ l <= tracker.MaxLatency

\* C22: after any sequence of Record calls Total = Successful + Failed =
\* len(Latencies), Successful is the number of calls with success = true and
\* Latencies holds the recorded latencies in call order.
C22_TrackerCounts ==
    /\ tracker.Total = Len(recorded)
    /\ tracker.Total = tracker.Successful + tracker.Failed
    /\ tracker.Total = Len(tracker.Latencies)
    /\ tracker.Successful =
          Cardinality({i \in 1..Len(recorded) : recorded[i].success})
    /\ tracker.Latencies = [i \in 1..Len(recorded) |-> recorded[i].latency]

\* Three calls, one successful, the latencies not in ascending order.
C22_Witness ==
    /\ tracker.Total = 3
    /\ tracker.Successful = 1
    /\ tracker.Failed = 2
    /\ tracker.Latencies = <<2 * Millisecond, 3 * Millisecond, Millisecond>>
    /\ recorded[2].success

\* C23: AvgLatency is the sum of all recorded latencies, of successful and
\* failed requests alike, divided by their number with integer division, and
\* 0 when nothing was recorded.
RECURSIVE SumRecorded(_)
SumRecorded(calls) ==
    IF calls = <<>> THEN 0
    ELSE Head(calls).latency + SumRecorded(Tail(calls))

C23_AvgLatency ==
    LET n   == Len(recorded)
        avg == AvgLatency(tracker)
    IN  /\ n = 0 => avg = 0
        /\ n > 0 => /\ avg * n <= SumRecorded(recorded)
                    /\ SumRecorded(recorded) < (avg + 1) * n

\* A failed request of 3ms and a successful one of 0 and of 2ms: the average
\* is 5ms / 3 truncated.
C23_Witness ==
    /\ recorded = <<[latency |-> 3 * Millisecond, success |-> FALSE],
                    [latency |-> 0, success |-> TRUE],
                    [latency |-> 2 * Millisecond, success |-> TRUE]>>
    /\ AvgLatency(tracker) = 1666666

----
\* The smaller of two numbers.
Min(a, b) == IF a < b THEN a ELSE b

\* The entries of the last m Add calls, oldest first.
LastAdded(m) ==
    [i \in 1..m |-> [Timestamp |-> Len(added) - m + i,
                     Result    |-> added[Len(added) - m + i]]]

\* C24: after k Add calls on a History of capacity c >= 1, Size() is
\* min(k, c) and the entries are the last min(k, c) added results in
\* insertion order; with c = 3 and 5 adds they are the 3rd, 4th and 5th.
C24_RollingWindow ==
    LET k == Len(added)
        c == history.maxSize
    IN  /\ Size(history) = Min(k, c)
        /\ Size(history) <= c
        /\ history.entries = LastAdded(Min(k, c))
        /\ (c = 3 /\ k = 5) =>
              history.entries = <<[Timestamp |-> 3, Result |-> added[3]],
                                  [Timestamp |-> 4, Result |-> added[4]],
                                  [Timestamp |-> 5, Result |-> added[5]]>>

\* Capacity 3, five adds of which the first two are evicted.
C24_Witness ==
    /\ history.maxSize = 3
    /\ Len(added) = 5
    /\ Size(history) = 3
    /\ history.entries[1].Timestamp = 3
    /\ added[1] # added[3]

\* C25: a call GetRecent(n), n >= 0, returns the last min(n, Size())
\* entries oldest first (none for n = 0, all for n above the size) and
\* leaves the history as it was.
C25_GetRecent ==
    [][returned' # returned =>
          /\ history' = history
          /\ returned'.value = LastAdded(Min(returned'.n, Size(history)))
          /\ returned'.n = 0 => returned'.value = <<>>
          /\ returned'.n > Size(history) => returned'.value = history.entries
      ]_vars

\* GetRecent(2) on a full history of capacity 3 after an eviction.
C25_Witness ==
    /\ returned.call = "GetRecent"
    /\ returned.n = 2
    /\ Len(returned.value) = 2
    /\ history.maxSize = 3
    /\ Len(added) = 4
    /\ returned.value[1].Timestamp = 3
    /\ returned.value[2].Timestamp = 4

----
\* r is the integer-truncated square root of v (r small enough to square).
IsTruncatedRoot(r, v) ==
    /\ 0 <= r
    /\ r <= 46340
    /\ r * r <= v
    /\ (r + 1) * (r + 1) > v

\* The mean of the squared deviations of the tracker's latencies from their
\* average, truncated.
MeanSquaredDeviation ==
    IF Len(tracker.Latencies) = 0 THEN 0
    ELSE SumSquares(tracker.Latencies, AvgLatency(tracker))
             \div Len(tracker.Latencies)

\* C26: calculateStdDev returns the integer-truncated square root of the
\* mean of the squared deviations from the average, for every latency
\* sequence (0 for an empty one): its ten Newton steps reach the root.
\* Stated on the enclosure of the float64 result: at every call the root is
\* one of the values the computation can return.
C26_StdDevIsRoot ==
    [][returned' # returned =>
          \E v \in calculateStdDev(tracker.Latencies, AvgLatency(tracker)) :
              IsTruncatedRoot(v, MeanSquaredDeviation)]_vars

----
\* C27: watch mode with --count N, N >= 1, and no interrupt makes exactly N
\* requests and then shows the summary: never more than N requests, and N
\* when the summary is shown.
C27_ExactlyCountRequests ==
    (watch.pc # "off" /\ watch.watchCount >= 1 /\ ~watch.interrupted) =>
        /\ Len(recorded) <= watch.watchCount
        /\ watch.pc \in {"summary", "done"} =>
              /\ Len(recorded) = watch.watchCount
              /\ watch.requestCount = watch.watchCount

----
\* C28: a batch whose effective concurrency is invalid (<= 0) fails with a
\* setup error before any probe starts: no work is started, no crash.
C28_InvalidConcurrencyRejected ==
    (mainPc \notin {"load", "none"} /\ concurrency <= 0) =>
        /\ ~panicked
        /\ mainPc = "exited"
        /\ exitCode = ExitError
        /\ dispatched = {}

----
----
\* C30: during a batch run the summary is changed by the collector loop
\* alone: every step that changes it is one AddResult of the result at the
\* head of the results channel, made by the collector, and moves no worker.
C30_SingleWriter ==
    [][summary' # summary =>
          /\ mainPc = "collect"
          /\ mainPc' = "collect"
          /\ resultsChan # <<>>
          /\ summary' = AddResult(summary, Head(resultsChan))
          /\ resultsChan' = Tail(resultsChan)
          /\ pc' = pc
          /\ result' = result
      ]_vars

\* The collector has added a result while another worker is still probing.
C30_Witness ==
    /\ summary.Total = 1
    /\ \E w \in Workers : pc[w] = "probe"

----
\* The worker w is between its send on the semaphore and its deferred
\* receive from it: it holds a slot.
HoldsGate(w) ==
    pc[w] \in {"probe", "send", "sent", "setStopped", "closeStop", "release"}

\* The step in which the worker w delivers its result: case resultsChan <-
\* result of the third select.
Delivers(w) == pc[w] = "send" /\ pc'[w] = "sent"

\* The step in which the worker w gives its slot back.
Releases(w) == pc[w] = "release" /\ pc'[w] = "wgdone"

\* What testEndpoint can return for the endpoint of the worker w.
ProbeResults(w) ==
    {testEndpoint(w, DefaultExpectedStatus, r) :
        r \in ProbeOutcomes(BatchLatencies)}

\* C31 as stated: a worker acquires the gate, runs the probe, releases the
\* gate and then delivers, so at the step that delivers its result the worker
\* went through the gate, its probe ran, and it holds no slot any more.
C31_ReleasedBeforeDelivery ==
    [][\A w \in Workers :
          Delivers(w) => /\ w \in dispatched
                         /\ result[w] \in ProbeResults(w)
                         /\ ~HoldsGate(w)]_vars

\* C31 amended: a worker acquires the gate, runs the probe, delivers and
\* then releases the gate.  At the step that delivers its result the worker
\* went through the gate, the result is the one its probe returned, and the
\* worker still holds its slot (the slots taken are exactly those of the
\* workers between acquire and release); the release comes after, and only
\* from a worker that went through the gate.
C31_WorkerOrder ==
    [][\A w \in Workers :
          /\ Delivers(w) =>
                /\ w \in dispatched
                /\ result[w] \in ProbeResults(w)
                /\ resultsChan' = Append(resultsChan, result[w])
                /\ HoldsGate(w)
                /\ semaphore' = semaphore
                /\ semaphore = Cardinality({v \in Workers : HoldsGate(v)})
          /\ Releases(w) =>
                /\ w \in dispatched
                /\ semaphore >= 1
                /\ semaphore' = semaphore - 1
                /\ result[w] = NoResult]_vars

\* A worker has delivered its result and still holds its slot.
C31_Witness ==
    \E w \in Workers :
        /\ pc[w] = "sent"
        /\ w \in dispatched
        /\ semaphore >= 1
        /\ resultsChan # <<>>

----
\* C32: a call of AddResult with a result whose probe has an error adds one
\* to Total and to Failed, appends the result to Results, and leaves
\* AvgLatency, Slow and Successful as they were.
C32_ErroredResult ==
    [][(summary' # summary
        /\ Len(summary'.Results) >= 1
        /\ summary'.Results[Len(summary'.Results)].Result.Error)
       => /\ summary'.Total = summary.Total + 1
          /\ summary'.Failed = summary.Failed + 1
          /\ Len(summary'.Results) = Len(summary.Results) + 1
          /\ SubSeq(summary'.Results, 1, Len(summary.Results))
                = summary.Results
          /\ summary'.AvgLatency = summary.AvgLatency
          /\ summary'.Slow = summary.Slow
          /\ summary'.Successful = summary.Successful]_vars

\* An errored result was added last, to a summary that already had an
\* average, a slow result and a successful one.
C32_Witness ==
    /\ summary.Total >= 2
    /\ summary.Results[summary.Total].Result.Error
    /\ summary.Results[summary.Total].Result.Latency > 0
    /\ summary.AvgLatency > 0
    /\ summary.Slow >= 1
    /\ summary.Successful >= 1

----
\* The results in the order of their arrival: those collected, then those
\* waiting in the channel.
Arrived == summary.Results \o resultsChan

\* xs is a prefix of ys.
IsPrefix(xs, ys) ==
    /\ Len(xs) <= Len(ys)
    /\ SubSeq(ys, 1, Len(xs)) = xs

\* C33: summary.Results only grows at its end, in every step of a run, with
\* or without fail-fast and deadline: its earlier value is a prefix of its
\* later one.  Its order is the order of arrival: a delivery appends to the
\* sequence of arrived results, and no other step changes that sequence.
C33_AppendOnlyArrivalOrder ==
    [][/\ IsPrefix(summary.Results, summary'.Results)
       /\ Len(summary'.Results) <= Len(summary.Results) + 1
       /\ \/ Arrived' = Arrived
          \/ \E w \in Workers :
                /\ Delivers(w)
                /\ Arrived' = Append(Arrived, result[w])]_vars

\* Two results were collected in a cancelled run, the second endpoint's
\* before the first's.
C33_Witness ==
    /\ Len(summary.Results) = 2
    /\ summary.Results[1].Name = 2
    /\ summary.Results[2].Name = 1
    /\ Cancelled

----
\* The watch loop has stopped: it is about to send on done, or has returned.
LoopStopped == watch.loop \in {"send", "returned"}

\* Once the loop has stopped no request is made, and the summary is never
\* displayed a second time.
NoRequestAfterStop ==
    [][/\ LoopStopped => /\ recorded' = recorded
                         /\ added' = added
                         /\ watch'.requestCount = watch.requestCount
                         /\ LoopStopped'
       /\ watch'.summaries <= 1]_vars

\* After an interrupt the loop stops and the summary is displayed, once.
InterruptStops ==
    watch.interrupted ~> (/\ watch.pc = "done"
                          /\ watch.loop = "returned"
                          /\ watch.summaries = 1)

\* C34 as stated: once an interrupt has been received the watch loop stops
\* after at most finishing the request in progress (it starts no request any
\* more), makes no request after stopping, and the summary is displayed
\* exactly once.
C34_StopsAfterRequestInProgress ==
    /\ [][watch.interrupted => ~(watch.loop = "select"
                                 /\ watch'.loop = "request")]_vars
    /\ NoRequestAfterStop
    /\ InterruptStops

\* C34 amended: once an interrupt has been received the watch loop
\* eventually stops under fair scheduling, after finishing the request in
\* progress and those of the ticks its select takes before it takes the
\* signal; it makes no request after stopping, and the summary is displayed
\* exactly once.
C34_InterruptStops ==
    /\ NoRequestAfterStop
    /\ InterruptStops

\* An interrupted watch has ended after several requests, its summary
\* displayed once.
C34_Witness ==
    /\ watch.pc = "done"
    /\ watch.interrupted
    /\ ~watch.sigPending
    /\ watch.summaries = 1
    /\ Len(recorded) >= 2

----
\* The value the query named call returns on the tracker t.
QueryValue(call, n, t) ==
    CASE call = "AvgLatency"  -> AvgLatency(t)
      [] call = "Percentile"  -> Percentile(t, n)
      [] call = "SuccessRate" -> TrackerSuccessRate(t)

\* C35: AvgLatency, Percentile and SuccessRate leave the tracker as it was:
\* a step that is no Record changes none of Total, Successful, Failed,
\* MinLatency, MaxLatency and Latencies, order included; and the same call
\* made again right after returns the value it just returned.
C35_QueriesPure ==
    [][recorded' = recorded =>
          /\ tracker'.Total = tracker.Total
          /\ tracker'.Successful = tracker.Successful
          /\ tracker'.Failed = tracker.Failed
          /\ tracker'.MinLatency = tracker.MinLatency
          /\ tracker'.MaxLatency = tracker.MaxLatency
          /\ tracker'.Latencies = tracker.Latencies
          /\ returned'.call # "none" =>
                returned'.value
                   = QueryValue(returned'.call, returned'.n, tracker')]_vars

\* Percentile was called on a tracker whose latencies are not in ascending
\* order and which has seen a failed request.
C35_Witness ==
    /\ returned.call = "Percentile"
    /\ returned.n = 50
    /\ Len(tracker.Latencies) >= 3
    /\ tracker.Latencies[1] > tracker.Latencies[2]
    /\ tracker.Latencies = [i \in 1..Len(recorded) |-> recorded[i].latency]
    /\ tracker.Failed >= 1

----
\* C36: when the stop signal was raised during a run, fail-fast is enabled
\* and the failed result that raised it is in the summary runBatchTests
\* returns: Failed >= 1 at return, and the process does not exit with 0.
C36_StopImpliesFailed ==
    (stopCloses >= 1 /\ mainPc \in {"returned", "exited"}) =>
        /\ failFast
        /\ summary.Failed >= 1
        /\ \E i \in 1..Len(summary.Results) : ~summary.Results[i].Success
        /\ mainPc = "exited" => exitCode # ExitSuccess

\* A run stopped by fail-fast before every endpoint was probed has exited
\* with the failure code.
C36_Witness ==
    /\ mainPc = "exited"
    /\ failFast
    /\ stopCloses = 1
    /\ summary.Failed >= 1
    /\ summary.Total < nEndpoints
    /\ exitCode = ExitFailure

----
\* Every worker goroutine of the run has returned.
AllWorkersReturned == \A w \in 1..nEndpoints : pc[w] = "done"

\* C37: the results channel is closed only when every worker goroutine has
\* returned, so no worker sends on the closed channel; and no sent result is
\* lost: only the collector takes results out of the channel, each into the
\* summary, and its loop ends with the channel empty.
C37_CloseAfterWorkers ==
    [][/\ resultsClosed' => AllWorkersReturned'
       /\ \A w \in Workers : Delivers(w) => ~resultsClosed
       /\ resultsChan' # resultsChan =>
             \/ \E w \in Workers :
                   /\ Delivers(w)
                   /\ resultsChan' = Append(resultsChan, result[w])
             \/ /\ mainPc = "collect"
                /\ resultsChan' = Tail(resultsChan)
                /\ summary'.Results
                      = Append(summary.Results, Head(resultsChan))
       /\ (mainPc = "collect" /\ mainPc' = "returned") =>
             /\ resultsClosed
             /\ resultsChan = <<>>]_vars

\* The channel was closed after two workers had sent, and both results were
\* collected before the loop ended.
C37_Witness ==
    /\ resultsClosed
    /\ mainPc = "returned"
    /\ nEndpoints = 2
    /\ Len(summary.Results) = 2
    /\ resultsChan = <<>>

----
\* C38: runBatchTests has returned only if every worker goroutine has
\* finished, whether or not the deadline expired or fail-fast tripped: no
\* probe is in flight, no slot is held and the WaitGroup is at zero.
C38_ReturnAfterWorkers ==
    TestsReturned =>
        /\ AllWorkersReturned
        /\ InFlight = {}
        /\ \A w \in Workers : ~HoldsGate(w)
        /\ semaphore = 0
        /\ wgCount = 0

\* runBatchTests has returned after the deadline expired, with a result
\* that a probe past the gate delivered after the expiry.
C38_Witness ==
    /\ mainPc = "returned"
    /\ ctxDone
    /\ late # {}
    /\ dispatched # {}
    /\ summary.Total >= 1

----
\* C39: whatever opts.Retries is, Ping has made at least one request attempt
\* when it returns, and a returned Result without error is the result of an
\* attempt that succeeded, never the zero Result of a loop that did not run.
C39_AtLeastOneAttempt ==
    ping.pc \in {"returned", "done"} =>
        /\ Len(ping.outcomes) >= 1
        /\ ~ping.lastResult.Error =>
              /\ ping.lastResult = ping.outcomes[Len(ping.outcomes)]
              /\ ping.lastResult # ZeroResult

====
